---- MODULE Spec2Model ----
(***************************************************************************)
(* Model of the encrypted memory store (memory/secure_memory.py), its      *)
(* embedding extension (memory/embedding_memory.py), the encryption        *)
(* helpers they use (security/encryption.py) and the password hash strings *)
(* (security/hashing.py).                                                  *)
(*                                                                         *)
(* One SQLite database file and one key file are shared by a fixed set of  *)
(* store handles.  Every public method is one action: Python runs a method *)
(* to completion and no method leaves a transaction open when it returns   *)
(* or raises, so the committed tables are the whole database state between *)
(* two calls.  Where two handles run in threads of their own, store and    *)
(* clear_context are also given statement by statement.                    *)
(***************************************************************************)
EXTENDS Integers, Sequences, FiniteSets, TLC

\* ------------------------------------------------------------------ bounds
MaxMem == 2        \* rows the memories table may ever have been given
MaxCtx == 2        \* contexts that may ever be created
MaxBatch == 2      \* longest list handed to batch_store
MaxSessionMem == 1 \* rows stored while two sessions share the database
MaxCrudCtx == 1    \* contexts created in the specification Spec
MaxSalt == 3       \* longest salt handed to compute_hash

\* ------------------------------------------------------- program constants
DefaultImportance == 5     \* store(..., importance: int = 5, ...)
BatchDefaultImportance == 5  \* memory_data.get('importance', 5)
DefaultLimit == 10         \* semantic_search(..., limit: int = 10, ...)

\* ------------------------------------------------------------- input sets
Handles == {"h1", "h2"}
Passphrases == {"P1", "P2"}
Salts == {1, 2}            \* outcomes of os.urandom used as salt or key
Nonces == {"n1", "n2"}     \* outcomes of os.urandom(12)
Alphabet == {"A", "a", "b", "c", "#"}
Queries == {<<"a">>, <<"B">>, <<>>}
CtxIds == 1..MaxCtx
NoCtx == 0                 \* context_id=None (or any falsy value)
NoPath == ""               \* key_path=None
DirPath == "./store.key"   \* a key_path with a directory part
BarePath == "store.key"    \* the same file named without one
MemIds == 1..MaxMem

\* A Python optional argument: omitted/None, or a value.
None == [isNone |-> TRUE, v |-> <<>>]
Some(x) == [isNone |-> FALSE, v |-> x]
NoImportance == [isNone |-> TRUE, v |-> 0]

\* (content, importance, tags) as handed to store.
StoreArg(content, importance, tags) ==
    [content |-> content, importance |-> importance, tags |-> tags]
StoreArgs ==
    {StoreArg(<<"A", "b">>, NoImportance, None),
     StoreArg(<<"c">>, Some(8), Some(<<"A", "B">>)),
     StoreArg(<<"A", "b">>, Some(8), Some(<<>>))}
Half == [num |-> 1, den |-> 2]            \* threshold: float = 0.5
NineTenths == [num |-> 9, den |-> 10]

\* -------------------------------------------------------------- the state
VARIABLES
    contexts,     \* table contexts: the set of context ids (rows)
    nextCtx,      \* number of uuid4 context ids handed out so far
    memories,     \* table memories: id -> row
    seq,          \* sqlite_sequence of memories (AUTOINCREMENT)
    embeddings,   \* table embeddings: memory_id -> embedding blob
    keyfile,      \* the file at key_path
    handles,      \* per store object: conn, initialized, encryption_key
    result,       \* outcome of the last call
    created,      \* history: the database file exists; who created it
    returned,     \* history: ids SecureMemory.store has returned
    stored,       \* history: row id -> arguments and handle of its store call
    touched,      \* history: rows given to update_importance or add_tags
    deleted       \* history: ids removed by delete_memory / clear_context

vars == <<contexts, nextCtx, memories, seq, embeddings, keyfile, handles,
          result, created, returned, stored, touched, deleted>>

db == [memories |-> memories, embeddings |-> embeddings, seq |-> seq]

\* ------------------------------------------------- security/encryption.py
NoKey == [kind |-> "none", p |-> "", s |-> 0]
\* A file that does not exist, and the forms the text of a file can have:
\* "b64" is base64 text, b64 the (first 32 bytes, rest) it decodes to;
\* "padding" is text whose length base64 rejects; "junk" is text with no
\* character of the base64 alphabet.
NoFile == [exists |-> FALSE, form |-> "b64", b64 |-> <<NoKey, 0>>]
\* Fewer than 32 bytes, n of them, where a key is expected.
ShortKey(n) == [kind |-> "short", p |-> "", s |-> n]

\* PBKDF2 of (passphrase, salt), or 32+16 random bytes.  salt = 0 stands for
\* "no salt given": a random one is drawn (rnd), as is a random key.
generate_key(passphrase, salt, rnd) ==
    IF passphrase # ""
    THEN LET s == IF salt = 0 THEN rnd ELSE salt
         IN  <<[kind |-> "kdf", p |-> passphrase, s |-> s], s>>
    ELSE <<[kind |-> "rnd", p |-> "", s |-> rnd], rnd>>

\* AESGCM(key) takes keys of 16, 24 or 32 bytes and raises ValueError for
\* any other length.
AESGCMKey(key) == key.kind = "short" => key.s \in {16, 24}

\* AESGCM(key).encrypt(nonce, data, None): ciphertext with its tag.
encrypt_with_key(data, key, nonce) ==
    <<[k |-> key, n |-> nonce, pt |-> data], nonce>>

\* AESGCM(key).decrypt: authenticates under (key, nonce) before returning.
decrypt_with_key(encrypted_data, key, nonce) ==
    IF encrypted_data.k = key /\ encrypted_data.n = nonce
    THEN [ok |-> TRUE, text |-> encrypted_data.pt]
    ELSE [ok |-> FALSE, text |-> <<>>]

key_to_string(key, salt) ==
    [exists |-> TRUE, form |-> "b64", b64 |-> <<key, salt>>]

\* base64.b64decode(s) without validate: characters outside the alphabet
\* are dropped, and what is left must have a length base64 accepts.
b64decode(s) ==
    IF s.form = "padding" THEN [status |-> "binascii.Error", bytes |-> s.b64]
    ELSE IF s.form = "junk" THEN [status |-> "ok", bytes |-> <<ShortKey(0), 0>>]
    ELSE [status |-> "ok", bytes |-> s.b64]

\* combined = base64.b64decode(key_string); combined[:32], combined[32:]
string_to_key(key_string) ==
    LET combined == b64decode(key_string)
    IN  [status |-> combined.status, key |-> combined.bytes[1],
         salt |-> combined.bytes[2]]

\* ---------------------------------------------------------------- helpers
Truthy(opt) == ~opt.isNone /\ opt.v # <<>>

\* json.dumps / json.loads of a list of strings; a NULL column is isNull.
SqlNull == [isNull |-> TRUE, json |-> <<>>]
json_dumps(list) == [isNull |-> FALSE, json |-> list]
json_loads(col) == col.json

Res(op, h, status, msg, arg, val) ==
    [op |-> op, h |-> h, status |-> status, msg |-> msg, arg |-> arg,
     val |-> val]

\* Where the method a store object is running stands: between two calls
\* (idle), or inside store or clear_context with the locals it holds.
IdleCall ==
    [pc |-> "idle", content |-> <<>>, context_id |-> NoCtx,
     importance |-> 0, tags |-> None, nonce |-> "", memory_ids |-> <<>>]
Idle(h) == handles[h].call.pc = "idle"

Initialized(h) == handles[h].initialized
Constructed(h) == handles[h].conn # "none"
IsEmbedding(h) == handles[h].kind = "EmbeddingMemory"
NotInitialized(op, h, arg) ==
    Res(op, h, "RuntimeError", "Memory system not initialized", arg, <<>>)

\* ------------------------------------------------------------------- Init
Init ==
    /\ contexts = {}
    /\ nextCtx = 0
    /\ memories = << >>
    /\ seq = 0
    /\ embeddings = << >>
    /\ keyfile = NoFile
    /\ handles = [h \in Handles |->
                    [conn |-> "none", initialized |-> FALSE, kind |-> "none",
                     passphrase |-> "", key_path |-> NoPath,
                     encryption_key |-> NoKey, call |-> IdleCall]]
    /\ result = Res("init", "h1", "ok", "", <<>>, <<>>)
    /\ created = [exists |-> FALSE, passphrase |-> "", key_path |-> NoPath]
    /\ returned = {}
    /\ stored = << >>
    /\ touched = {}
    /\ deleted = {}

\* -------------------------------------------- SecureMemory: construction
\* os.path.dirname(key_path): empty for a bare file name.
dirname(key_path) == IF key_path = BarePath THEN "" ELSE "."

\* os.makedirs(name, exist_ok=True)
makedirs(name) == IF name = "" THEN "FileNotFoundError" ELSE "ok"

\* file is the file key_path names, as the method finds it.  Returns the
\* key and the file as the method leaves it, or the exception it raises.
_setup_encryption_key(passphrase, key_path, file, rnd) ==
    IF key_path # NoPath /\ file.exists
    THEN LET k == string_to_key(file)
         IN  [status |-> k.status, key |-> k.key, file |-> file]
    ELSE IF key_path # NoPath
    THEN LET g == generate_key("", 0, rnd)
         IN  IF makedirs(dirname(key_path)) # "ok"
             THEN [status |-> makedirs(dirname(key_path)), key |-> g[1],
                   file |-> file]
             ELSE [status |-> "ok", key |-> g[1],
                   file |-> key_to_string(g[1], g[2])]
    ELSE IF passphrase # ""
    THEN [status |-> "ok", key |-> generate_key(passphrase, 0, rnd)[1],
          file |-> file]
    ELSE [status |-> "ok", key |-> generate_key("", 0, rnd)[1],
          file |-> file]

\* SecureMemory(db_path, passphrase, key_path) and
\* EmbeddingMemory(db_path, model_name, passphrase, key_path).
\* _initialize_database only creates missing tables: rows are untouched.
\* When _setup_encryption_key raises, no object comes to exist and the
\* database file is not touched.
Open(h, kind, passphrase, key_path, rnd) ==
    /\ ~Constructed(h)
    /\ \E k \in {_setup_encryption_key(passphrase, key_path, keyfile, rnd)} :
         LET arg == [passphrase |-> passphrase, key_path |-> key_path,
                     existing |-> created.exists]
         IN  IF k.status # "ok"
             THEN /\ result' = Res("open", h, k.status, "", arg, <<>>)
                  /\ UNCHANGED <<keyfile, handles, created>>
             ELSE /\ keyfile' = k.file
                  /\ handles' = [handles EXCEPT ![h] =
                         [conn |-> "open", initialized |-> TRUE,
                          kind |-> kind, passphrase |-> passphrase,
                          key_path |-> key_path, encryption_key |-> k.key,
                          call |-> IdleCall]]
                  /\ created' = IF created.exists THEN created
                                ELSE [exists |-> TRUE,
                                      passphrase |-> passphrase,
                                      key_path |-> key_path]
                  /\ result' = Res("open", h, "ok", "", arg, <<>>)
    /\ UNCHANGED <<contexts, nextCtx, memories, seq, embeddings, returned,
                   stored, touched, deleted>>

\* The file at key_path is written by someone other than the store.
WriteKeyFile(text) ==
    /\ keyfile' = text
    /\ result' = Res("write_key_file", "h1", "ok", "", <<>>, <<>>)
    /\ UNCHANGED <<contexts, nextCtx, memories, seq, embeddings, handles,
                   created, returned, stored, touched, deleted>>

\* Variant: the connection is closed and initialized is left as it is.
close_conn_only(hs, h) == [hs EXCEPT ![h].conn = "closed"]

\* if self.conn: self.conn.close(); self.initialized = False.  conn is
\* set from construction on, and closing a closed connection does nothing.
close(hs, h) ==
    [hs EXCEPT ![h].conn = "closed", ![h].initialized = FALSE]

Close(h) ==
    /\ Constructed(h)
    /\ handles' = close(handles, h)
    /\ result' = Res("close", h, "ok", "", <<>>, <<>>)
    /\ UNCHANGED <<contexts, nextCtx, memories, seq, embeddings, keyfile,
                   created, returned, stored, touched, deleted>>

\* __exit__(exc_type, exc_val, exc_tb) at the end of a with-block over the
\* object: calls close() and returns None, so that an exception (raised is
\* TRUE) goes on to the caller.
Exit(h, raised) ==
    /\ Initialized(h)
    /\ handles' = close(handles, h)
    /\ result' = Res("__exit__", h, "ok", "", raised, None)
    /\ UNCHANGED <<contexts, nextCtx, memories, seq, embeddings, keyfile,
                   created, returned, stored, touched, deleted>>

\* ------------------------------------------------ SecureMemory: contexts
CreateContext(h) ==
    /\ Constructed(h)
    /\ IF ~Initialized(h)
       THEN /\ result' = NotInitialized("create_context", h, <<>>)
            /\ UNCHANGED <<contexts, nextCtx>>
       ELSE /\ nextCtx < MaxCtx
            /\ nextCtx' = nextCtx + 1
            /\ contexts' = contexts \cup {nextCtx + 1}
            /\ result' = Res("create_context", h, "ok", "", <<>>,
                             nextCtx + 1)
    /\ UNCHANGED <<memories, seq, embeddings, keyfile, handles, created,
                   returned, stored, touched, deleted>>

\* --------------------------------------------------- SecureMemory.store
\* Variant: the default of the importance parameter is lost.
ImportanceOfNoDefault(importance) == importance.v

ImportanceOf(importance) ==
    IF importance.isNone THEN DefaultImportance ELSE importance.v

\* INSERT of one memories row with the id SQLite gives it.
InsertMemory(d, id, key, content, context_id, importance, tags, nonce) ==
    LET enc == encrypt_with_key(content, key, nonce)
        combined_data == <<enc[2], enc[1]>>
        tags_json == IF Truthy(tags) THEN json_dumps(tags.v) ELSE SqlNull
        row == [context_id |-> context_id,
                content |-> combined_data,
                content_hash |-> content,
                importance |-> importance,
                tags |-> tags_json]
    IN  [status |-> "ok", msg |-> "",
         db |-> [d EXCEPT !.memories = (id :> row) @@ d.memories,
                          !.seq = id],
         id |-> id]

\* Variant: no check that the context exists.
SecureStoreNoCheck(d, ctxs, key, content, context_id, importance, tags, nonce) ==
    InsertMemory(d, d.seq + 1, key, content, context_id, importance, tags,
                 nonce)

\* Variant: id INTEGER PRIMARY KEY without AUTOINCREMENT, which gives a new
\* row the largest id in the table plus one.
SecureStoreRowid(d, ctxs, key, content, context_id, importance, tags, nonce) ==
    IF context_id \notin ctxs
    THEN [status |-> "ValueError", msg |-> "Context doesn't exist",
          db |-> d, id |-> 0]
    ELSE LET used == DOMAIN d.memories
             top == IF used = {} THEN 0
                    ELSE CHOOSE x \in used : \A y \in used : y <= x
         IN  InsertMemory(d, top + 1, key, content, context_id, importance,
                          tags, nonce)

\* Variant: SQLite enforces the FOREIGN KEY clause of memories.context_id.
InsertAfterCheckForeignKey(d, ctxs, key, content, context_id, importance, tags, nonce) ==
    IF context_id \notin ctxs
    THEN [status |-> "IntegrityError", msg |-> "FOREIGN KEY constraint failed",
          db |-> d, id |-> 0]
    ELSE InsertMemory(d, d.seq + 1, key, content, context_id, importance,
                      tags, nonce)

\* store from "Encrypt content" on: encrypt, INSERT, commit.  ctxs is the
\* contexts table at that moment, which nothing here looks at: SQLite does
\* not enforce foreign keys unless asked to.
InsertAfterCheck(d, ctxs, key, content, context_id, importance, tags, nonce) ==
    IF ~AESGCMKey(key)
    THEN [status |-> "ValueError",
          msg |-> "AESGCM key must be 128, 192, or 256 bits.",
          db |-> d, id |-> 0]
    ELSE InsertMemory(d, d.seq + 1, key, content, context_id, importance,
                      tags, nonce)

\* The body of SecureMemory.store after the initialized check, on the
\* tables d as the connection sees them.
SecureStore(d, ctxs, key, content, context_id, importance, tags, nonce) ==
    IF context_id \notin ctxs
    THEN [status |-> "ValueError", msg |-> "Context doesn't exist",
          db |-> d, id |-> 0]
    ELSE InsertAfterCheck(d, ctxs, key, content, context_id, importance,
                          tags, nonce)

\* ------------------------------------------------------ embedding model
\* SentenceTransformer.encode is an opaque text -> vector function; the
\* model uses the vector of character counts.  It raises when fails is set.
encode(text) ==
    [ch \in Alphabet |-> Cardinality({i \in 1..Len(text) : text[i] = ch})]

\* numpy: array.tobytes() and np.frombuffer(bytes, dtype=np.float32).
tobytes(vector) == [f32 |-> vector]
frombuffer(bytes) == bytes.f32

\* INSERT INTO embeddings (memory_id, embedding) VALUES (?, ?)
InsertEmbedding(d, memory_id, bytes) ==
    IF memory_id \in DOMAIN d.embeddings
    THEN [status |-> "IntegrityError", db |-> d]
    ELSE [status |-> "ok",
          db |-> [d EXCEPT !.embeddings = (memory_id :> bytes) @@ @]]

\* SecureMemory.store and its override EmbeddingMemory.store.  The base
\* store commits the memory row before the embedding is computed.
StoreOutcome(h, content, context_id, importance, tags, nonce, fails) ==
    LET s == SecureStore(db, contexts, handles[h].encryption_key, content,
                         context_id, ImportanceOf(importance), tags, nonce)
    IN  IF s.status # "ok" \/ ~IsEmbedding(h) THEN s
        ELSE IF fails
        THEN [s EXCEPT !.status = "Exception", !.msg = "encode failed"]
        ELSE LET e == InsertEmbedding(s.db, s.id, tobytes(encode(content)))
             IN  [s EXCEPT !.status = e.status, !.db = e.db]

Store(h, content, context_id, importance, tags, nonce, fails) ==
    /\ Constructed(h)
    /\ LET arg == [content |-> content, context_id |-> context_id,
                   importance |-> importance, tags |-> tags]
       IN  IF ~Initialized(h)
           THEN /\ result' = NotInitialized("store", h,
                                            [context_id |-> context_id])
                /\ UNCHANGED <<memories, seq, embeddings, returned, stored>>
           ELSE \E o \in {StoreOutcome(h, content, context_id, importance,
                                       tags, nonce, fails)} :
                /\ o.db.seq <= MaxMem
                /\ memories' = o.db.memories
                /\ seq' = o.db.seq
                /\ embeddings' = o.db.embeddings
                /\ result' = Res("store", h, o.status, o.msg,
                                 [context_id |-> context_id], o.id)
                /\ returned' = returned \cup DOMAIN o.db.memories
                /\ stored' = IF o.id = 0 THEN stored
                             ELSE (o.id :> [arg |-> arg, h |-> h]) @@ stored
    /\ UNCHANGED <<contexts, nextCtx, keyfile, handles, created, touched,
                   deleted>>

\* ------------------------------------------------- SecureMemory.retrieve
Retrieve(h, memory_id) ==
    /\ Constructed(h)
    /\ result' =
         IF ~Initialized(h) THEN NotInitialized("retrieve", h, memory_id)
         ELSE IF memory_id \notin DOMAIN memories
         THEN Res("retrieve", h, "ValueError", "Memory not found",
                  memory_id, <<>>)
         ELSE LET row == memories[memory_id]
                  combined_data == row.content
                  nonce == combined_data[1]
                  encrypted_content == combined_data[2]
                  dec == decrypt_with_key(encrypted_content,
                                          handles[h].encryption_key, nonce)
                  tags == IF row.tags.isNull THEN <<>>
                          ELSE json_loads(row.tags)
              IN  IF ~dec.ok
                  THEN Res("retrieve", h, "ValueError",
                           "Failed to decrypt data", memory_id, <<>>)
                  ELSE Res("retrieve", h, "ok", "", memory_id,
                           [id |-> memory_id, content |-> dec.text,
                            importance |-> row.importance, tags |-> tags])
    /\ UNCHANGED <<contexts, nextCtx, memories, seq, embeddings, keyfile,
                   handles, created, returned, stored, touched,
                   deleted>>

\* --------------------------------------------------- SecureMemory.search
Lower(ch) == IF ch = "A" THEN "a" ELSE IF ch = "B" THEN "b" ELSE ch
lower(text) == [i \in 1..Len(text) |-> Lower(text[i])]

\* Python's `sub in text` on strings.
Contains(sub, text) ==
    \E i \in 0..(Len(text) - Len(sub)) :
        SubSeq(text, i + 1, i + Len(sub)) = sub

\* The 16 bytes that follow the plaintext when a GCM ciphertext is run
\* through the cipher without verification, as text.  They are pseudo-random
\* bytes fixed by key, nonce and plaintext: for some sealed blobs they are
\* valid UTF-8 and for most they are not.  The model lets the nonce tell.
Junk == <<"#">>
JunkIsUtf8(ciphertext) == ciphertext.n = "n2"

\* SecureMemory._decrypt: AES.new(key, MODE_GCM, nonce).decrypt(ciphertext)
\* never verifies the tag and decrypts the tag bytes along with the rest.
_decrypt(encrypted_data, key) ==
    LET nonce == encrypted_data[1]
        ciphertext == encrypted_data[2]
        plain == IF ciphertext.k = key /\ ciphertext.n = nonce
                 THEN ciphertext.pt ELSE <<>>
    IN  IF JunkIsUtf8(ciphertext)
        THEN [ok |-> TRUE, text |-> plain \o Junk]
        ELSE [ok |-> FALSE, text |-> <<>>]

\* Variant: the WHERE clause is never added.
InScopeAny(memory_id, context_id) == TRUE

\* WHERE context_id = ?, added only `if context_id:`.
InScope(memory_id, context_id) ==
    context_id # NoCtx => memories[memory_id].context_id = context_id

\* The ids of a set in ascending order: the order SQLite returns rows in.
RECURSIVE Ascending(_)
Ascending(S) ==
    IF S = {} THEN <<>>
    ELSE LET m == CHOOSE x \in S : \A y \in S : x <= y
         IN  <<m>> \o Ascending(S \ {m})

\* The loop of search over the fetched rows; stops at the first exception
\* that is not caught (json.loads of a NULL tags column).
RECURSIVE SearchLoop(_, _, _, _)
SearchLoop(ids, query, key, results) ==
    IF ids = <<>> THEN [status |-> "ok", val |-> results]
    ELSE LET row == memories[Head(ids)]
             dec == _decrypt(row.content, key)
         IN  IF ~dec.ok THEN SearchLoop(Tail(ids), query, key, results)
             ELSE IF ~Contains(lower(query), lower(dec.text))
             THEN SearchLoop(Tail(ids), query, key, results)
             ELSE IF row.tags.isNull
             THEN [status |-> "TypeError", val |-> <<>>]
             ELSE SearchLoop(Tail(ids), query, key,
                             Append(results,
                                    [id |-> Head(ids), content |-> dec.text,
                                     importance |-> row.importance,
                                     tags |-> json_loads(row.tags)]))

\* search without a tag filter: the rows fetched and the loop over them.
search(h, query, context_id, arg) ==
    LET rows == {m \in DOMAIN memories : InScope(m, context_id)}
        o == SearchLoop(Ascending(rows), query, handles[h].encryption_key,
                        <<>>)
    IN  Res("search", h, o.status, "", arg, o.val)

Search(h, query, context_id, tags) ==
    /\ Constructed(h)
    /\ LET arg == [query |-> query, context_id |-> context_id, tags |-> tags]
       IN  result' =
             IF ~Initialized(h) THEN NotInitialized("search", h, arg)
             ELSE IF Truthy(tags)
             THEN Res("search", h, "OperationalError",
                      "no such function: json_array_contains", arg, <<>>)
             ELSE search(h, query, context_id, arg)
    /\ UNCHANGED <<contexts, nextCtx, memories, seq, embeddings, keyfile,
                   handles, created, returned, stored, touched,
                   deleted>>

\* ------------------------------- update_importance, add_tags, get_contexts
\* Variant: the UPDATE has no WHERE clause.
SetImportanceAll(rows, memory_id, importance) ==
    [m \in DOMAIN rows |-> [rows[m] EXCEPT !.importance = importance]]

\* UPDATE memories SET importance = ? WHERE id = ?
SetImportance(rows, memory_id, importance) ==
    [m \in DOMAIN rows |->
       IF m = memory_id THEN [rows[m] EXCEPT !.importance = importance]
       ELSE rows[m]]

UpdateImportance(h, memory_id, importance) ==
    /\ Constructed(h)
    /\ LET arg == [memory_id |-> memory_id, importance |-> importance]
       IN  IF ~Initialized(h)
           THEN /\ result' = NotInitialized("update_importance", h, arg)
                /\ UNCHANGED <<memories, touched>>
           ELSE /\ memories' = SetImportance(memories, memory_id, importance)
                /\ touched' = touched \cup ({memory_id} \cap DOMAIN memories)
                /\ result' = Res("update_importance", h, "ok", "", arg, <<>>)
    /\ UNCHANGED <<contexts, nextCtx, seq, embeddings, keyfile, handles,
                   created, returned, stored, deleted>>

Range(list) == {list[i] : i \in 1..Len(list)}

\* list(set(...)): the elements once each, in an order Python does not fix.
Orderings(S) ==
    {l \in [1..Cardinality(S) -> S] : Range(l) = S}

\* Variant: the new tags replace the current ones.
new_tags_replace(current_tags, tags) == Orderings(Range(tags))

\* new_tags = list(set(current_tags + tags))
new_tags(current_tags, tags) == Orderings(Range(current_tags \o tags))

AddTags(h, memory_id, tags, order) ==
    /\ Constructed(h)
    /\ LET arg == [memory_id |-> memory_id, tags |-> tags]
       IN  IF ~Initialized(h)
           THEN /\ result' = NotInitialized("add_tags", h, arg)
                /\ UNCHANGED <<memories, touched>>
           ELSE IF memory_id \notin DOMAIN memories
           THEN /\ result' = Res("add_tags", h, "ValueError",
                                 "Memory not found", arg, <<>>)
                /\ UNCHANGED <<memories, touched>>
           ELSE LET row == memories[memory_id]
                    current_tags == IF row.tags.isNull THEN <<>>
                                    ELSE json_loads(row.tags)
                IN  /\ order \in new_tags(current_tags, tags)
                    /\ memories' = [memories EXCEPT
                                      ![memory_id].tags = json_dumps(order)]
                    /\ touched' = touched \cup {memory_id}
                    /\ result' = Res("add_tags", h, "ok", "", arg, <<>>)
    /\ UNCHANGED <<contexts, nextCtx, seq, embeddings, keyfile, handles,
                   created, returned, stored, deleted>>

GetContexts(h) ==
    /\ Constructed(h)
    /\ result' = IF ~Initialized(h) THEN NotInitialized("get_contexts", h, <<>>)
                 ELSE Res("get_contexts", h, "ok", "", <<>>, contexts)
    /\ UNCHANGED <<contexts, nextCtx, memories, seq, embeddings, keyfile,
                   handles, created, returned, stored, touched,
                   deleted>>

\* ------------------------------------------- delete_memory, clear_context
Without(f, S) == [x \in DOMAIN f \ S |-> f[x]]

\* Variant: only the base class delete_memory runs.
DeleteRowsBaseOnly(h, d, ids) ==
    [d EXCEPT !.memories = Without(@, ids)]

\* SecureMemory.delete_memory and its override, which deletes the embedding
\* row first; on the tables d, for a set of ids (clear_context calls it once
\* per id).
DeleteRows(h, d, ids) ==
    [d EXCEPT !.memories = Without(@, ids),
              !.embeddings = IF IsEmbedding(h) THEN Without(@, ids) ELSE @]

DeleteMemory(h, memory_id) ==
    /\ Constructed(h)
    /\ IF ~Initialized(h)
       THEN /\ result' =
                 IF IsEmbedding(h)
                 THEN Res("delete_memory", h, "ProgrammingError",
                          "Cannot operate on a closed database.",
                          memory_id, <<>>)
                 ELSE NotInitialized("delete_memory", h, memory_id)
            /\ UNCHANGED <<memories, embeddings, stored, touched, deleted>>
       ELSE LET d == DeleteRows(h, db, {memory_id})
            IN  /\ memories' = d.memories
                /\ embeddings' = d.embeddings
                /\ stored' = Without(stored, {memory_id})
                /\ touched' = touched \ {memory_id}
                /\ deleted' = deleted \cup ({memory_id} \cap DOMAIN memories)
                /\ result' = Res("delete_memory", h, "ok", "", memory_id,
                                 <<>>)
    /\ UNCHANGED <<contexts, nextCtx, seq, keyfile, handles, created,
                   returned>>

\* Variant: the SELECT has no WHERE clause.
MemoryIdsInAny(context_id) == DOMAIN memories

\* Variant: the memories of the context are not looked for.
MemoryIdsInNone(context_id) == {}

\* SELECT id FROM memories WHERE context_id = ?
MemoryIdsIn(context_id) ==
    {m \in DOMAIN memories : memories[m].context_id = context_id}

\* clear_context has no return statement: the call returns None.  The ids
\* it fetched into memory_ids are kept with the outcome.
ClearContext(h, context_id) ==
    /\ Constructed(h)
    /\ IF ~Initialized(h)
       THEN /\ result' = NotInitialized("clear_context", h,
                                        [context_id |-> context_id,
                                         memory_ids |-> {}])
            /\ UNCHANGED <<contexts, memories, embeddings, stored, touched,
                           deleted>>
       ELSE LET memory_ids == MemoryIdsIn(context_id)
                d == DeleteRows(h, db, memory_ids)
            IN  /\ memories' = d.memories
                /\ embeddings' = d.embeddings
                /\ contexts' = contexts \ {context_id}
                /\ stored' = Without(stored, memory_ids)
                /\ touched' = touched \ memory_ids
                /\ deleted' = deleted \cup memory_ids
                /\ result' = Res("clear_context", h, "ok", "",
                                 [context_id |-> context_id,
                                  memory_ids |-> memory_ids], None)
    /\ UNCHANGED <<nextCtx, seq, keyfile, handles, created, returned>>

\* ------------------------------------------- EmbeddingMemory.batch_store
\* One element of the list: a dict that may lack any of its three keys.
BatchItem(has_content, content, importance, tags) ==
    [has_content |-> has_content, content |-> content,
     importance |-> importance, tags |-> tags]

\* The loop of batch_store from item k on.  C is what is committed, W what
\* the connection sees (C plus its open transaction).  super().store ends
\* with conn.commit(), which commits everything pending; the INSERT of the
\* embedding that follows opens a new transaction.  An exception leaves the
\* loop for conn.rollback(), which restores C.
RECURSIVE BatchLoop(_, _, _, _, _, _, _, _, _)
BatchLoop(h, items, k, context_id, nonces, failAt, C, W, memory_ids) ==
    IF k > Len(items)
    THEN [status |-> "ok", db |-> W, val |-> memory_ids]
    ELSE IF ~items[k].has_content
    THEN [status |-> "RuntimeError", db |-> C, val |-> memory_ids]
    ELSE
      LET importance == IF items[k].importance.isNone
                        THEN BatchDefaultImportance
                        ELSE items[k].importance.v
          tags == IF items[k].tags.isNone THEN Some(<<>>) ELSE items[k].tags
          s == SecureStore(W, contexts, handles[h].encryption_key,
                           items[k].content, context_id, importance, tags,
                           nonces[k])
          e == InsertEmbedding(s.db, s.id, tobytes(encode(items[k].content)))
      IN  IF s.status # "ok"
          THEN [status |-> "RuntimeError", db |-> C, val |-> memory_ids]
          ELSE IF failAt = k \/ e.status # "ok"
          THEN [status |-> "RuntimeError", db |-> s.db,
                val |-> Append(memory_ids, s.id)]
          ELSE BatchLoop(h, items, k + 1, context_id, nonces, failAt,
                         s.db, e.db, Append(memory_ids, s.id))

BatchStore(h, items, context_id, nonces, failAt) ==
    /\ Constructed(h)
    /\ IsEmbedding(h)
    /\ LET arg == [count |-> Len(items), context_id |-> context_id]
       IN  IF ~Initialized(h)
           THEN /\ result' = NotInitialized("batch_store", h, arg)
                /\ UNCHANGED <<memories, seq, embeddings, returned, stored>>
           ELSE \E o \in {BatchLoop(h, items, 1, context_id, nonces, failAt,
                                    db, db, <<>>)} :
                /\ o.db.seq <= MaxMem
                /\ memories' = o.db.memories
                /\ seq' = o.db.seq
                /\ embeddings' = o.db.embeddings
                /\ returned' = returned \cup DOMAIN o.db.memories
                /\ result' =
                     IF o.status = "ok"
                     THEN Res("batch_store", h, "ok", "", arg, o.val)
                     ELSE Res("batch_store", h, "RuntimeError",
                              "Batch store failed", arg, <<>>)
                /\ stored' =
                     [m \in DOMAIN o.db.memories \ DOMAIN memories |->
                        [arg |-> [content |-> items[m - seq].content,
                                  context_id |-> context_id,
                                  importance |-> items[m - seq].importance,
                                  tags |-> items[m - seq].tags],
                         h |-> h]] @@ stored
    /\ UNCHANGED <<contexts, nextCtx, keyfile, handles, created, touched,
                   deleted>>

\* --------------------------------------- EmbeddingMemory.semantic_search
RECURSIVE DotOver(_, _, _)
DotOver(S, a, b) ==
    IF S = {} THEN 0
    ELSE LET ch == CHOOSE x \in S : TRUE
         IN  a[ch] * b[ch] + DotOver(S \ {ch}, a, b)
Dot(a, b) == DotOver(DOMAIN a, a, b)

\* Cosine similarity dot / (|a| * |b|) as the exact fraction of its square
\* (the vectors of the model have no negative component); den = 0 is the
\* nan numpy computes for a zero vector.
Similarity(query_embedding, embedding) ==
    [num |-> Dot(query_embedding, embedding) * Dot(query_embedding, embedding),
     den |-> Dot(query_embedding, query_embedding) * Dot(embedding, embedding)]

\* similarity >= threshold, threshold = t.num / t.den >= 0; nan >= x is False.
AtLeast(sim, t) ==
    sim.den # 0 /\ sim.num * t.den * t.den >= t.num * t.num * sim.den

\* (a.similarity, a.importance) > (b.similarity, b.importance)
KeyGreater(a, b) ==
    \/ a.similarity.num * b.similarity.den > b.similarity.num * a.similarity.den
    \/ /\ a.similarity.num * b.similarity.den
            = b.similarity.num * a.similarity.den
       /\ a.importance > b.importance

\* list.sort(key=..., reverse=True): descending and stable.
RECURSIVE SortDescending(_)
SortDescending(list) ==
    IF list = <<>> THEN <<>>
    ELSE LET rest == SortDescending(SubSeq(list, 1, Len(list) - 1))
             x == list[Len(list)]
             n == Cardinality({i \in 1..Len(rest) : ~KeyGreater(x, rest[i])})
         IN  SubSeq(rest, 1, n) \o <<x>> \o SubSeq(rest, n + 1, Len(rest))

RECURSIVE SemanticRows(_, _, _)
SemanticRows(ids, query_embedding, threshold) ==
    IF ids = <<>> THEN <<>>
    ELSE LET row == memories[Head(ids)]
             embedding == frombuffer(embeddings[Head(ids)])
             similarity == Similarity(query_embedding, embedding)
             rest == SemanticRows(Tail(ids), query_embedding, threshold)
         IN  IF AtLeast(similarity, threshold)
             THEN <<[id |-> Head(ids), content |-> row.content,
                     importance |-> row.importance, tags |-> row.tags,
                     similarity |-> similarity]>> \o rest
             ELSE rest

\* Variant: the list is cut to limit in the order the rows were fetched.
semantic_search_unsorted(query, context_id, limit, threshold) ==
    LET rows == {m \in DOMAIN memories \cap DOMAIN embeddings :
                   InScope(m, context_id)}
        results == SemanticRows(Ascending(rows), encode(query), threshold)
    IN  SubSeq(results, 1,
               IF limit < Len(results) THEN limit ELSE Len(results))

\* The list semantic_search returns: rows fetched, kept when similarity >=
\* threshold, sorted, cut to limit.
semantic_search(query, context_id, limit, threshold) ==
    LET rows == {m \in DOMAIN memories \cap DOMAIN embeddings :
                   InScope(m, context_id)}
        results == SortDescending(
                     SemanticRows(Ascending(rows), encode(query), threshold))
    IN  SubSeq(results, 1,
               IF limit < Len(results) THEN limit ELSE Len(results))

SemanticSearch(h, query, context_id, limit, threshold, fails) ==
    /\ Constructed(h)
    /\ IsEmbedding(h)
    /\ LET arg == [query |-> query, context_id |-> context_id,
                   limit |-> limit, threshold |-> threshold]
       IN  result' =
             IF fails
             THEN Res("semantic_search", h, "Exception", "encode failed",
                      arg, <<>>)
             ELSE IF handles[h].conn = "closed"
             THEN Res("semantic_search", h, "ProgrammingError",
                      "Cannot operate on a closed database.", arg, <<>>)
             ELSE Res("semantic_search", h, "ok", "", arg,
                      semantic_search(query, context_id, limit, threshold))
    /\ UNCHANGED <<contexts, nextCtx, memories, seq, embeddings, keyfile,
                   handles, created, returned, stored, touched,
                   deleted>>

\* ------------------------------------ EmbeddingMemory.optimize_embeddings
\* DELETE FROM embeddings WHERE memory_id NOT IN (SELECT id FROM memories)
DeleteOrphans(d) ==
    [d EXCEPT !.embeddings = Without(@, DOMAIN @ \ DOMAIN d.memories)]

\* VACUUM: SQLite refuses it while a transaction is open.
Vacuum(in_transaction) ==
    IF in_transaction THEN "OperationalError" ELSE "ok"

\* BEGIN TRANSACTION; the DELETE; VACUUM; commit.  Any exception leads to
\* conn.rollback(), which restores the tables d, and to a RuntimeError.
optimize_embeddings(d) ==
    LET W == DeleteOrphans(d)
    IN  IF Vacuum(TRUE) = "ok"
        THEN [status |-> "ok", msg |-> "", db |-> W]
        ELSE [status |-> "RuntimeError",
              msg |-> "Embedding optimization failed", db |-> d]

OptimizeEmbeddings(h) ==
    /\ Constructed(h)
    /\ IsEmbedding(h)
    /\ IF ~Initialized(h)
       THEN /\ result' = NotInitialized("optimize_embeddings", h, <<>>)
            /\ UNCHANGED embeddings
       ELSE \E o \in {optimize_embeddings(db)} :
            /\ embeddings' = o.db.embeddings
            /\ result' = Res("optimize_embeddings", h, o.status, o.msg,
                             <<>>, <<>>)
    /\ UNCHANGED <<contexts, nextCtx, memories, seq, keyfile, handles,
                   created, returned, stored, touched, deleted>>

\* ----------------------------------- EmbeddingMemory.recompute_embeddings
\* model.encode(content) where content is the memories.content column: the
\* sealed bytes nonce + ciphertext, not the text.  The vector of such bytes
\* has nothing of the vector of the text; the model gives it the one
\* component no stored text has.
encode_bytes(blob) == [ch \in Alphabet |-> IF ch = "#" THEN 1 ELSE 0]

\* INSERT OR REPLACE INTO embeddings (memory_id, embedding) VALUES (?, ?)
UpsertEmbedding(d, memory_id, bytes) ==
    [d EXCEPT !.embeddings =
        (memory_id :> bytes) @@ Without(@, {memory_id})]

\* The loop over the fetched rows from the k-th on, on the tables W the
\* open transaction sees; encode (or the upsert) raises at row failAt.
RECURSIVE RecomputeLoop(_, _, _, _, _)
RecomputeLoop(ids, k, failAt, W, count) ==
    IF ids = <<>> THEN [status |-> "ok", db |-> W, val |-> count]
    ELSE IF failAt = k THEN [status |-> "Exception", db |-> W, val |-> count]
    ELSE LET embedding == encode_bytes(W.memories[Head(ids)].content)
         IN  RecomputeLoop(Tail(ids), k + 1, failAt,
                           UpsertEmbedding(W, Head(ids), tobytes(embedding)),
                           count + 1)

\* Variant: the except clause does not roll back.
recompute_embeddings_no_rollback(d, context_id, failAt) ==
    LET rows == {m \in DOMAIN d.memories : InScope(m, context_id)}
        o == RecomputeLoop(Ascending(rows), 1, failAt, d, 0)
    IN  IF o.status = "ok"
        THEN [status |-> "ok", msg |-> "", db |-> o.db, val |-> o.val]
        ELSE [status |-> "RuntimeError",
              msg |-> "Embedding recomputation failed", db |-> o.db,
              val |-> 0]

\* BEGIN TRANSACTION; the SELECT (WHERE context_id = ? only `if
\* context_id:`); the loop; commit.  An exception leads to conn.rollback(),
\* which restores the tables d, and to a RuntimeError.
recompute_embeddings(d, context_id, failAt) ==
    LET rows == {m \in DOMAIN d.memories : InScope(m, context_id)}
        o == RecomputeLoop(Ascending(rows), 1, failAt, d, 0)
    IN  IF o.status = "ok"
        THEN [status |-> "ok", msg |-> "", db |-> o.db, val |-> o.val]
        ELSE [status |-> "RuntimeError",
              msg |-> "Embedding recomputation failed", db |-> d,
              val |-> 0]

RecomputeEmbeddings(h, context_id, failAt) ==
    /\ Constructed(h)
    /\ IsEmbedding(h)
    /\ LET arg == [context_id |-> context_id, failAt |-> failAt]
       IN  IF ~Initialized(h)
           THEN /\ result' = NotInitialized("recompute_embeddings", h, arg)
                /\ UNCHANGED embeddings
           ELSE \E o \in {recompute_embeddings(db, context_id, failAt)} :
                /\ embeddings' = o.db.embeddings
                /\ result' = Res("recompute_embeddings", h, o.status, o.msg,
                                 arg, o.val)
    /\ UNCHANGED <<contexts, nextCtx, memories, seq, keyfile, handles,
                   created, returned, stored, touched, deleted>>

\* ---------------------------------------------------- security/hashing.py
\* Byte strings are sequences of units: a single byte, or the run of bytes
\* passlib writes for a hash, "$argon2id$v=19$m=65536,t=3,p=4$salt$digest",
\* which is fixed by password and salt and has no ":" in it.
Byte(c) == [c |-> c, p |-> "", s |-> <<>>]
Colon == Byte(":")
SaltBytes == {Byte("x"), Byte("y"), Colon}
SaltValues == UNION {[1..n -> SaltBytes] : n \in 1..MaxSalt}

\* full_hash = argon2.using(salt=salt, ...).hash(password); full_hash.encode()
compute_hash(password, salt) ==
    <<<<[c |-> "$argon2", p |-> password, s |-> salt]>>, salt>>

\* argon2.verify(password, hash): hashes password with the parameters and
\* the salt written in hash and compares.
argon2_verify(password, hash) == hash[1].p = password

\* base64.b64encode(combined).decode('utf-8')
b64encode(combined) == [form |-> "b64", b64 |-> combined]

\* hash_bytes + b":" + salt, base64-encoded.
hash_to_string(hash_bytes, salt) == b64encode(hash_bytes \o <<Colon>> \o salt)

\* bytes.split(sep): the pieces between the occurrences of sep.
RECURSIVE split(_, _)
split(bytes, sep) ==
    IF \A i \in 1..Len(bytes) : bytes[i] # sep THEN <<bytes>>
    ELSE LET i == CHOOSE j \in 1..Len(bytes) :
                    /\ bytes[j] = sep
                    /\ \A k \in 1..(j - 1) : bytes[k] # sep
         IN  <<SubSeq(bytes, 1, i - 1)>>
               \o split(SubSeq(bytes, i + 1, Len(bytes)), sep)

\* Every exception inside string_to_hash comes out as ValueError.
string_to_hash(hash_str) ==
    LET combined == b64decode(hash_str)
        parts == split(combined.bytes, Colon)
    IN  IF combined.status # "ok" \/ Len(parts) # 2
        THEN [status |-> "ValueError", hash |-> <<>>, salt |-> <<>>]
        ELSE [status |-> "ok", hash |-> parts[1], salt |-> parts[2]]

secure_compare(a, b) == a = b

\* verify_hash for a non-empty str.  A hash string made by hash_to_string
\* is base64 text and never starts with "$argon2".  When string_to_hash
\* raises, salt is unbound at line 94: the UnboundLocalError is caught by
\* the outer except and the result is False.
verify_hash(password, hash_str) ==
    LET h == string_to_hash(hash_str)
    IN  IF h.status # "ok" THEN FALSE
        ELSE IF h.hash # <<>> /\ h.hash[1].c = "$argon2"
        THEN argon2_verify(password, h.hash)
        ELSE LET new_hash == compute_hash(password, h.salt)[1]
             IN  secure_compare(hash_str, hash_to_string(new_hash, h.salt))

\* The three functions as calls; string_to_hash and verify_hash are given
\* the string made from the hash the last compute_hash returned.
ComputeHash(password, salt) ==
    /\ result' = Res("compute_hash", "h1", "ok", "",
                     [password |-> password, salt |-> salt],
                     compute_hash(password, salt))
    /\ UNCHANGED <<contexts, nextCtx, memories, seq, embeddings, keyfile,
                   handles, created, returned, stored, touched, deleted>>

StringToHash ==
    /\ result.op = "compute_hash"
    /\ LET hash_str == hash_to_string(result.val[1], result.val[2])
           h == string_to_hash(hash_str)
       IN  result' = Res("string_to_hash", "h1", h.status, "",
                         [hash_bytes |-> result.val[1],
                          salt |-> result.val[2]],
                         <<h.hash, h.salt>>)
    /\ UNCHANGED <<contexts, nextCtx, memories, seq, embeddings, keyfile,
                   handles, created, returned, stored, touched, deleted>>

VerifyHash(password) ==
    /\ result.op = "compute_hash"
    /\ LET hash_str == hash_to_string(result.val[1], result.val[2])
       IN  result' = Res("verify_hash", "h1", "ok", "",
                         [password |-> password,
                          hashed |-> result.arg.password,
                          salt |-> result.val[2]],
                         verify_hash(password, hash_str))
    /\ UNCHANGED <<contexts, nextCtx, memories, seq, embeddings, keyfile,
                   handles, created, returned, stored, touched, deleted>>

\* ------------------------- store and clear_context, statement by statement
\* Two store objects on one database file run in different threads or
\* processes.  SQLite serialises statements and commits; between two
\* statements of one method the other object may run.  No method here holds
\* a transaction open across two of its steps: every write is committed in
\* the step that makes it.
Pending(pc) == Cardinality({h \in Handles : handles[h].call.pc = pc})

\* store up to and including the SELECT that verifies the context.
StoreCheck(h, content, context_id, importance, tags, nonce) ==
    /\ Constructed(h) /\ Idle(h) /\ ~IsEmbedding(h)
    /\ seq + Pending("store_insert") < MaxMem
    /\ IF ~Initialized(h)
       THEN /\ result' = NotInitialized("store", h,
                                        [context_id |-> context_id])
            /\ UNCHANGED handles
       ELSE IF context_id \notin contexts
       THEN /\ result' = Res("store", h, "ValueError",
                             "Context doesn't exist",
                             [context_id |-> context_id], 0)
            /\ UNCHANGED handles
       ELSE /\ handles' = [handles EXCEPT ![h].call =
                  [IdleCall EXCEPT !.pc = "store_insert",
                                   !.content = content,
                                   !.context_id = context_id,
                                   !.importance = ImportanceOf(importance),
                                   !.tags = tags, !.nonce = nonce]]
            /\ UNCHANGED result
    /\ UNCHANGED <<contexts, nextCtx, memories, seq, embeddings, keyfile,
                   created, returned, stored, touched, deleted>>

\* The rest of store: encrypt, INSERT, commit, return cursor.lastrowid.
StoreInsert(h) ==
    /\ handles[h].call.pc = "store_insert"
    /\ LET c == handles[h].call
       IN  \E o \in {InsertAfterCheck(db, contexts,
                                      handles[h].encryption_key, c.content,
                                      c.context_id, c.importance, c.tags,
                                      c.nonce)} :
             /\ memories' = o.db.memories
             /\ seq' = o.db.seq
             /\ result' = Res("store", h, o.status, o.msg,
                              [context_id |-> c.context_id], o.id)
             /\ returned' = returned \cup DOMAIN o.db.memories
             /\ stored' =
                  IF o.id = 0 THEN stored
                  ELSE (o.id :> [arg |-> [content |-> c.content,
                                          context_id |-> c.context_id,
                                          importance |-> Some(c.importance),
                                          tags |-> c.tags],
                                 h |-> h]) @@ stored
    /\ handles' = [handles EXCEPT ![h].call = IdleCall]
    /\ UNCHANGED <<contexts, nextCtx, embeddings, keyfile, created, touched,
                   deleted>>

\* clear_context up to and including the SELECT of the ids.
ClearSelect(h, context_id) ==
    /\ Constructed(h) /\ Idle(h)
    /\ IF ~Initialized(h)
       THEN /\ result' = NotInitialized("clear_context", h,
                                        [context_id |-> context_id,
                                         memory_ids |-> {}])
            /\ UNCHANGED handles
       ELSE /\ handles' = [handles EXCEPT ![h].call =
                  [IdleCall EXCEPT !.pc = "clear_delete",
                                   !.context_id = context_id,
                                   !.memory_ids =
                                      Ascending(MemoryIdsIn(context_id))]]
            /\ UNCHANGED result
    /\ UNCHANGED <<contexts, nextCtx, memories, seq, embeddings, keyfile,
                   created, returned, stored, touched, deleted>>

\* One round of the loop: self.delete_memory(memory_id), which commits.
ClearDeleteMemory(h) ==
    /\ handles[h].call.pc = "clear_delete"
    /\ handles[h].call.memory_ids # <<>>
    /\ LET memory_id == Head(handles[h].call.memory_ids)
           d == DeleteRows(h, db, {memory_id})
       IN  /\ memories' = d.memories
           /\ embeddings' = d.embeddings
           /\ stored' = Without(stored, {memory_id})
           /\ touched' = touched \ {memory_id}
           /\ deleted' = deleted \cup ({memory_id} \cap DOMAIN memories)
    /\ handles' = [handles EXCEPT ![h].call.memory_ids = Tail(@)]
    /\ UNCHANGED <<contexts, nextCtx, seq, keyfile, result, created,
                   returned>>

\* After the loop: DELETE FROM contexts WHERE id = ?, commit, return.
ClearDeleteContext(h) ==
    /\ handles[h].call.pc = "clear_delete"
    /\ handles[h].call.memory_ids = <<>>
    /\ contexts' = contexts \ {handles[h].call.context_id}
    /\ result' = Res("clear_context", h, "ok", "",
                     [context_id |-> handles[h].call.context_id,
                      memory_ids |-> {}], None)
    /\ handles' = [handles EXCEPT ![h].call = IdleCall]
    /\ UNCHANGED <<nextCtx, memories, seq, embeddings, keyfile, created,
                   returned, stored, touched, deleted>>

\* --------------------------------------------------------- specifications
\* One open SecureMemory object on a fresh database: its operations on
\* memories and contexts.
Next ==
    \/ Open("h1", "SecureMemory", "", NoPath, 1)
    \/ nextCtx < MaxCrudCtx /\ CreateContext("h1")
    \/ \E a \in StoreArgs, x \in CtxIds :
          Store("h1", a.content, x, a.importance, a.tags, "n1", FALSE)
    \/ \E m \in MemIds : Retrieve("h1", m)
    \/ \E m \in MemIds : UpdateImportance("h1", m, 3)
    \/ \E m \in MemIds, o \in Orderings({"A", "B"}) \cup Orderings({"B"}) :
          AddTags("h1", m, <<"B">>, o)
    \/ \E m \in MemIds : DeleteMemory("h1", m)
    \/ \E x \in CtxIds : ClearContext("h1", x)
    \/ GetContexts("h1")

Spec == Init /\ [][Next]_vars

\* One EmbeddingMemory object; text search and semantic search over what it
\* stored.  Each stored text comes with the nonce os.urandom drew for it.
SearchStores ==
    {<<StoreArg(<<"A", "b">>, Some(8), Some(<<"A">>)), "n2">>,
     <<StoreArg(<<"c">>, NoImportance, Some(<<"B">>)), "n1">>,
     <<StoreArg(<<"A">>, Some(3), None), "n2">>}
\* (query, tags) handed to search; (limit, threshold, encode raises) of a
\* semantic_search call.
SearchCalls ==
    {<<q, None>> : q \in Queries} \cup {<<<<"a">>, Some(<<"A">>)>>}
SemanticQueries == {<<"A", "c">>, <<"c">>}
SemanticCalls ==
    {<<1, Half, FALSE>>, <<DefaultLimit, Half, FALSE>>,
     <<DefaultLimit, NineTenths, FALSE>>, <<DefaultLimit, Half, TRUE>>}

NextSearch ==
    \/ Open("h1", "EmbeddingMemory", "", NoPath, 1)
    \/ CreateContext("h1")
    \/ \E s \in SearchStores, x \in CtxIds :
          Store("h1", s[1].content, x, s[1].importance, s[1].tags, s[2],
                FALSE)
    \/ \E m \in MemIds : DeleteMemory("h1", m)
    \/ \E c \in SearchCalls, x \in CtxIds \cup {NoCtx} :
          Search("h1", c[1], x, c[2])
    \/ \E q \in SemanticQueries, x \in CtxIds \cup {NoCtx},
          c \in SemanticCalls : SemanticSearch("h1", q, x, c[1], c[2], c[3])

SpecSearch == Init /\ [][NextSearch]_vars

\* Two SecureMemory sessions on the same database file and key file.
NextSession ==
    \/ \E h \in Handles, p \in Passphrases \cup {""}, kp \in {NoPath, DirPath},
          rnd \in Salts : Open(h, "SecureMemory", p, kp, rnd)
    \/ \E h \in Handles : Close(h)
    \/ \E h \in Handles : CreateContext(h)
    \/ \E h \in Handles, n \in Nonces :
          /\ seq < MaxSessionMem
          /\ Store(h, <<"A", "b">>, 1, Some(8), Some(<<"A">>), n, FALSE)
    \/ \E h \in Handles, m \in 1..MaxSessionMem : Retrieve(h, m)
    \/ \E h \in Handles, q \in {<<"a">>, <<>>} : Search(h, q, NoCtx, None)

SpecSession == Init /\ [][NextSession]_vars

\* One EmbeddingMemory object: memory rows together with embedding rows.
BatchItems ==
    {BatchItem(TRUE, <<"c">>, NoImportance, None),
     BatchItem(FALSE, <<>>, NoImportance, None)}
BatchLists ==
    UNION {[1..n -> BatchItems] : n \in 0..MaxBatch}

NextEmbed ==
    \/ Open("h1", "EmbeddingMemory", "", NoPath, 1)
    \/ Close("h1")
    \/ CreateContext("h1")
    \/ \E x \in CtxIds, f \in BOOLEAN :
          Store("h1", <<"c">>, x, NoImportance, None, "n1", f)
    \/ \E items \in BatchLists, x \in CtxIds, failAt \in 0..MaxBatch :
          BatchStore("h1", items, x, [k \in 1..Len(items) |-> "n1"], failAt)
    \/ \E m \in MemIds : DeleteMemory("h1", m)
    \/ \E x \in CtxIds : ClearContext("h1", x)

SpecEmbed == Init /\ [][NextEmbed]_vars

\* An EmbeddingMemory object and a SecureMemory object on the same database
\* file: the second deletes memory rows and knows nothing of embeddings.
NextOrphan ==
    \/ Open("h1", "EmbeddingMemory", "", NoPath, 1)
    \/ Open("h2", "SecureMemory", "", NoPath, 2)
    \/ \E h \in Handles : Close(h)
    \/ CreateContext("h1")
    \/ \E x \in CtxIds :
          Store("h1", <<"c">>, x, NoImportance, None, "n1", FALSE)
    \/ \E h \in Handles, m \in MemIds : DeleteMemory(h, m)
    \/ OptimizeEmbeddings("h1")
    \/ \E x \in CtxIds \cup {NoCtx}, failAt \in 0..MaxMem :
          RecomputeEmbeddings("h1", x, failAt)

SpecOrphan == Init /\ [][NextOrphan]_vars

\* Two SecureMemory sessions and the key file: every way of naming it, and
\* what someone else may have left in it.
KeyFileTexts ==
    {key_to_string(generate_key("", 0, 2)[1], 2),
     [exists |-> TRUE, form |-> "b64", b64 |-> <<ShortKey(0), 0>>],
     [exists |-> TRUE, form |-> "b64", b64 |-> <<ShortKey(16), 0>>],
     [exists |-> TRUE, form |-> "padding", b64 |-> <<NoKey, 0>>],
     [exists |-> TRUE, form |-> "junk", b64 |-> <<NoKey, 0>>]}

NextKey ==
    \/ \E h \in Handles, p \in {"", "P1"}, kp \in {NoPath, DirPath, BarePath} :
          Open(h, "SecureMemory", p, kp, 1)
    \/ \E h \in Handles : Close(h)
    \/ \E text \in KeyFileTexts : WriteKeyFile(text)
    \/ \E h \in Handles : nextCtx < MaxCrudCtx /\ CreateContext(h)
    \/ \E h \in Handles :
          /\ seq < MaxSessionMem
          /\ Store(h, <<"c">>, 1, NoImportance, None, "n1", FALSE)

SpecKey == Init /\ [][NextKey]_vars

\* Two SecureMemory objects on one database file, each in a thread of its
\* own: store and clear_context advance one statement at a time.
NextRace ==
    \/ \E h \in Handles : Open(h, "SecureMemory", "", NoPath, 1)
    \/ \E h \in Handles : Idle(h) /\ CreateContext(h)
    \/ \E h \in Handles, x \in CtxIds :
          StoreCheck(h, <<"c">>, x, NoImportance, None, "n1")
    \/ \E h \in Handles : StoreInsert(h)
    \/ \E h \in Handles, x \in CtxIds : ClearSelect(h, x)
    \/ \E h \in Handles : ClearDeleteMemory(h)
    \/ \E h \in Handles : ClearDeleteContext(h)

SpecRace == Init /\ [][NextRace]_vars

\* An EmbeddingMemory object and a SecureMemory object from construction to
\* after close: every public method, before and after.
NextLife ==
    \/ Open("h1", "EmbeddingMemory", "", NoPath, 1)
    \/ Open("h2", "SecureMemory", "", NoPath, 1)
    \/ \E h \in Handles : Close(h)
    \/ \E h \in Handles, raised \in BOOLEAN : Exit(h, raised)
    \/ \E h \in Handles : nextCtx < MaxCrudCtx /\ CreateContext(h)
    \/ \E h \in Handles :
          /\ seq < MaxSessionMem
          /\ Store(h, <<"c">>, 1, NoImportance, None, "n1", FALSE)
    \/ \E h \in Handles, m \in 1..MaxSessionMem : Retrieve(h, m)
    \/ \E h \in Handles : Search(h, <<"c">>, NoCtx, None)
    \/ \E h \in Handles, m \in 1..MaxSessionMem : UpdateImportance(h, m, 3)
    \/ \E h \in Handles, m \in 1..MaxSessionMem :
          AddTags(h, m, <<"B">>, <<"B">>)
    \/ \E h \in Handles, m \in 1..MaxSessionMem : DeleteMemory(h, m)
    \/ \E h \in Handles : ClearContext(h, 1)
    \/ \E h \in Handles : GetContexts(h)
    \/ /\ seq < MaxSessionMem
       /\ BatchStore("h1", <<BatchItem(TRUE, <<"c">>, NoImportance, None)>>,
                     1, <<"n1">>, 0)
    \/ \E f \in BOOLEAN :
          SemanticSearch("h1", <<"c">>, NoCtx, DefaultLimit, Half, f)
    \/ RecomputeEmbeddings("h1", NoCtx, 0)
    \/ OptimizeEmbeddings("h1")

SpecLife == Init /\ [][NextLife]_vars

\* One EmbeddingMemory object as the only writer of its database: every
\* method that writes memories or contexts.
NextWriter ==
    \/ Open("h1", "EmbeddingMemory", "", NoPath, 1)
    \/ CreateContext("h1")
    \/ \E x \in CtxIds :
          Store("h1", <<"c">>, x, NoImportance, None, "n1", FALSE)
    \/ \E x \in CtxIds, failAt \in {0, 2} :
          BatchStore("h1", [k \in 1..2 |->
                              BatchItem(TRUE, <<"c">>, NoImportance, None)],
                     x, <<"n1", "n1">>, failAt)
    \/ \E m \in MemIds : UpdateImportance("h1", m, 3)
    \/ \E m \in MemIds : AddTags("h1", m, <<"B">>, <<"B">>)
    \/ \E m \in MemIds : DeleteMemory("h1", m)
    \/ \E x \in CtxIds : ClearContext("h1", x)

SpecWriter == Init /\ [][NextWriter]_vars

\* Password hashes and their string form.
NextHash ==
    \/ \E password \in Passphrases, salt \in SaltValues :
          ComputeHash(password, salt)
    \/ StringToHash
    \/ \E password \in Passphrases : VerifyHash(password)

SpecHash == Init /\ [][NextHash]_vars

\* ----------------------------------------------------------------- claims
Tables == <<memories, embeddings>>

\* C1: batch_store is all-or-nothing: when it raises, the memories and the
\* embeddings tables are exactly as they were before the call.
C1_BatchAllOrNothing ==
    [][(result'.op = "batch_store" /\ result'.status # "ok")
         => Tables' = Tables]_vars

\* C2: retrieve(id) on the store object that stored id, with no
\* update_importance, add_tags or delete of id since, returns the content,
\* the importance (5 when omitted) and the tag list (empty when absent or
\* empty) that store was given, whatever happened to other memories.
C2_StoreRetrieveRoundTrip ==
    (/\ result.op = "retrieve"
     /\ Initialized(result.h)
     /\ result.arg \in DOMAIN stored
     /\ result.arg \notin touched
     /\ stored[result.arg].h = result.h)
    => LET given == stored[result.arg].arg
       IN  /\ result.status = "ok"
           /\ result.val.id = result.arg
           /\ result.val.content = given.content
           /\ result.val.importance =
                 (IF given.importance.isNone THEN 5 ELSE given.importance.v)
           /\ result.val.tags =
                 (IF given.tags.isNone THEN <<>> ELSE given.tags.v)

\* A round trip of a memory stored without importance or tags, after another
\* memory was changed and one was deleted.
C2_Witness ==
    /\ result.op = "retrieve"
    /\ result.status = "ok"
    /\ result.arg \in DOMAIN stored \ touched
    /\ stored[result.arg].arg.importance.isNone
    /\ stored[result.arg].arg.tags.isNone
    /\ touched # {}

\* C3: no column of a persisted memories row holds the plaintext content
\* that store was given.
C3_NoPlaintextColumn ==
    \A m \in DOMAIN stored :
        m \in DOMAIN memories
        => memories[m].content_hash # stored[m].arg.content

\* C4: opening an existing store, created with a passphrase, with another
\* passphrase raises "Failed to decrypt" instead of giving a store object.
C4_WrongPassphraseFailsAtOpen ==
    (/\ result.op = "open"
     /\ result.arg.existing
     /\ result.arg.key_path = NoPath /\ created.key_path = NoPath
     /\ created.passphrase # "" /\ result.arg.passphrase # ""
     /\ result.arg.passphrase # created.passphrase)
    => /\ result.status = "ValueError"
       /\ ~Initialized(result.h)

\* C5: a memory stored by a session opened with passphrase P is retrieved
\* with the same content by another session opened with P on the same file.
C5_PersistsAcrossSessions ==
    (/\ result.op = "retrieve"
     /\ Initialized(result.h)
     /\ result.arg \in DOMAIN stored
     /\ LET g == stored[result.arg].h
        IN  /\ g # result.h
            /\ handles[g].passphrase # ""
            /\ handles[g].passphrase = handles[result.h].passphrase
            /\ handles[g].key_path = NoPath
            /\ handles[result.h].key_path = NoPath)
    => /\ result.status = "ok"
       /\ result.val.content = stored[result.arg].arg.content

\* The stored blob of row m passes AEAD authentication under the key of h.
Authentic(h, m) ==
    decrypt_with_key(memories[m].content[2], handles[h].encryption_key,
                     memories[m].content[1]).ok

\* C6: retrieve of a row whose blob fails authentication raises a decryption
\* error, and no record that retrieve or search returns was made from a blob
\* that fails authentication.
C6_NoUnauthenticatedContent ==
    /\ (/\ result.op = "retrieve"
        /\ Initialized(result.h)
        /\ result.arg \in DOMAIN memories
        /\ ~Authentic(result.h, result.arg))
       => (result.status = "ValueError"
           /\ result.msg = "Failed to decrypt data")
    /\ (result.op = "search" /\ result.status = "ok")
       => \A i \in 1..Len(result.val) : Authentic(result.h, result.val[i].id)

\* C7: store on an open store with a context id that is not an existing
\* context raises the context-not-found ValueError and leaves contexts,
\* memories and embeddings unchanged.
C7_StoreUnknownContext ==
    [][(/\ result'.op = "store"
        /\ Initialized(result'.h)
        /\ result'.arg.context_id \notin contexts)
       => (/\ result'.status = "ValueError"
           /\ result'.msg = "Context doesn't exist"
           /\ contexts' = contexts
           /\ Tables' = Tables)]_vars

\* A refused store on a database that has memory and embedding rows.
C7_Witness ==
    /\ result.op = "store"
    /\ result.status = "ValueError"
    /\ result.arg.context_id \notin contexts
    /\ memories # << >>
    /\ embeddings # << >>

\* C8: retrieve on an open store raises the not-found ValueError for every
\* id store never returned and for every id delete_memory or clear_context
\* removed.
C8_RetrieveAbsent ==
    (/\ result.op = "retrieve"
     /\ Initialized(result.h)
     /\ (result.arg \notin returned \/ result.arg \in deleted))
    => (result.status = "ValueError" /\ result.msg = "Memory not found")

\* retrieve of a deleted id after a later store.
C8_Witness ==
    /\ result.op = "retrieve"
    /\ result.status = "ValueError"
    /\ result.arg \in deleted
    /\ \E m \in DOMAIN memories : m > result.arg

\* C9: every record search or semantic_search returns for context_id = B is
\* a memory whose context_id is B.
C9_ContextIsolation ==
    (/\ result.op \in {"search", "semantic_search"}
     /\ result.status = "ok"
     /\ result.arg.context_id # NoCtx)
    => \A i \in 1..Len(result.val) :
          /\ result.val[i].id \in DOMAIN memories
          /\ memories[result.val[i].id].context_id = result.arg.context_id

\* A scoped semantic search that returns a memory while another context
\* holds a memory with the same text.
C9_Witness ==
    /\ result.op = "semantic_search"
    /\ result.status = "ok"
    /\ result.arg.context_id # NoCtx
    /\ Len(result.val) > 0
    /\ \E m \in DOMAIN memories \cap DOMAIN embeddings :
          /\ memories[m].context_id # result.arg.context_id
          /\ embeddings[m] = embeddings[result.val[1].id]

\* The ids search should return: the stored memories in scope whose content
\* contains the query, case-insensitively.
Matching(query, context_id) ==
    {m \in DOMAIN stored :
        /\ InScope(m, context_id)
        /\ Contains(lower(query), lower(stored[m].arg.content))}

\* C10: search without a tag filter returns exactly the memories in scope
\* whose stored content contains the query case-insensitively, each with
\* its content.
C10_SearchExact ==
    (/\ result.op = "search"
     /\ Initialized(result.h)
     /\ ~Truthy(result.arg.tags))
    => /\ result.status = "ok"
       /\ {result.val[i].id : i \in 1..Len(result.val)}
             = Matching(result.arg.query, result.arg.context_id)
       /\ \A i \in 1..Len(result.val) :
             result.val[i].content = stored[result.val[i].id].arg.content

\* The tag list of a row, and of row m, as retrieve reports it.
TagList(row) == IF row.tags.isNull THEN <<>> ELSE json_loads(row.tags)
TagsOf(m) == TagList(memories[m])

\* C11: search with a non-empty tag list T completes without error and
\* returns exactly the memories in scope whose content contains the query
\* and whose tag list contains every tag of T.
C11_TagAndFilter ==
    (/\ result.op = "search"
     /\ Initialized(result.h)
     /\ Truthy(result.arg.tags))
    => /\ result.status = "ok"
       /\ {result.val[i].id : i \in 1..Len(result.val)}
             = {m \in Matching(result.arg.query, result.arg.context_id) :
                  Range(result.arg.tags.v) \subseteq Range(TagsOf(m))}

\* The memories a delete_memory or clear_context call is to destroy.
Targets(op, arg) ==
    IF op = "delete_memory" THEN {arg} \cap DOMAIN memories
    ELSE {m \in DOMAIN memories : memories[m].context_id = arg.context_id}

\* C12: delete_memory and clear_context on an EmbeddingMemory remove the
\* memory row and the embedding row of every memory they destroy, and leave
\* no embedding row without its memory row.
C12_DeletionCascade ==
    [][(/\ result'.op \in {"delete_memory", "clear_context"}
        /\ result'.status = "ok"
        /\ IsEmbedding(result'.h))
       => (/\ \A m \in Targets(result'.op, result'.arg) :
                 m \notin DOMAIN memories' /\ m \notin DOMAIN embeddings'
           /\ DOMAIN embeddings' \subseteq DOMAIN memories')]_vars

\* clear_context has destroyed a memory while a memory of another context
\* keeps its embedding.
C12_Witness ==
    /\ result.op = "clear_context"
    /\ result.status = "ok"
    /\ IsEmbedding(result.h)
    /\ result.arg.memory_ids # {}
    /\ embeddings # << >>

\* C13: EmbeddingMemory.store writes its two rows as one unit: when it
\* returns, the memory row and the embedding row of the returned id exist,
\* and when it raises, the memories table is as it was before the call.
C13_StoreOneUnit ==
    [][(/\ result'.op = "store"
        /\ Initialized(result'.h)
        /\ IsEmbedding(result'.h))
       => IF result'.status = "ok"
          THEN /\ result'.val \in DOMAIN memories'
               /\ result'.val \in DOMAIN embeddings'
          ELSE memories' = memories]_vars

\* C14: clear_context(c) removes the memories whose context_id is c (with
\* their embeddings on an EmbeddingMemory) and the context row c, and
\* leaves every other context, memory and embedding as it was.
C14_ClearContextFrame ==
    [][(result'.op = "clear_context" /\ result'.status = "ok")
       => LET c == result'.arg.context_id
              gone == {m \in DOMAIN memories : memories[m].context_id = c}
          IN  /\ memories' = Without(memories, gone)
              /\ contexts' = contexts \ {c}
              /\ embeddings' = Without(embeddings, gone)
              /\ seq' = seq]_vars

\* clear_context has removed the memories of one context and its row while
\* another context and a memory in it remain.
C14_Witness ==
    /\ result.op = "clear_context"
    /\ result.status = "ok"
    /\ result.arg.memory_ids # {}
    /\ result.arg.context_id \notin contexts
    /\ \E m \in DOMAIN memories : memories[m].context_id \in contexts

\* C15: clear_context(c) returns the number of memories that had
\* context_id c just before the call (0 for an empty or unknown context).
C15_ClearContextCount ==
    (result.op = "clear_context" /\ result.status = "ok")
    => /\ ~result.val.isNone
       /\ result.val.v = Cardinality(result.arg.memory_ids)

\* C16: add_tags(id, T) on an existing memory makes its tag set the union
\* of its tags and T with no entry twice (so that the same call again
\* leaves the tag set as it is) and changes nothing else; on an id with no
\* row it raises the not-found ValueError and changes nothing.
C16_AddTagsUnion ==
    [][(result'.op = "add_tags" /\ Initialized(result'.h))
       => LET id == result'.arg.memory_id
              T == result'.arg.tags
          IN  /\ contexts' = contexts
              /\ embeddings' = embeddings
              /\ DOMAIN memories' = DOMAIN memories
              /\ \A m \in DOMAIN memories \ {id} : memories'[m] = memories[m]
              /\ IF id \in DOMAIN memories
                 THEN LET new == TagList(memories'[id])
                      IN  /\ result'.status = "ok"
                          /\ Range(new) = Range(TagsOf(id)) \cup Range(T)
                          /\ Cardinality(Range(new)) = Len(new)
                          /\ new_tags(new, T) = Orderings(Range(new))
                          /\ memories'[id] =
                               [memories[id] EXCEPT !.tags = memories'[id].tags]
                 ELSE /\ result'.status = "ValueError"
                      /\ result'.msg = "Memory not found"]_vars

\* add_tags has given a tag to a memory that already carried it.
C16_Witness ==
    /\ result.op = "add_tags"
    /\ result.status = "ok"
    /\ result.arg.memory_id \in DOMAIN stored
    /\ ~stored[result.arg.memory_id].arg.tags.isNone
    /\ Range(result.arg.tags)
          \subseteq Range(stored[result.arg.memory_id].arg.tags.v)
    /\ Len(TagsOf(result.arg.memory_id)) = 2

Qualifying(query, context_id, threshold) ==
    {m \in DOMAIN memories \cap DOMAIN embeddings :
        /\ InScope(m, context_id)
        /\ AtLeast(Similarity(encode(query), frombuffer(embeddings[m])),
                   threshold)}

\* The (similarity, importance) of memory m for a query.
KeyOf(m, query) ==
    [similarity |-> Similarity(encode(query), frombuffer(embeddings[m])),
     importance |-> memories[m].importance]

\* C18: semantic_search returns the first `limit` entries of the qualifying
\* memories sorted in descending order of (similarity, importance): no
\* entry is below the threshold, entries do not increase in similarity,
\* equal similarities go by higher importance, at most `limit` come back,
\* and a lower threshold never gives fewer results than a higher one.
C18_SemanticSearchOrder ==
    (result.op = "semantic_search" /\ result.status = "ok")
    => LET val == result.val
           a == result.arg
           Q == Qualifying(a.query, a.context_id, a.threshold)
           ids == {val[i].id : i \in 1..Len(val)}
       IN  /\ ids \subseteq Q
           /\ Cardinality(ids) = Len(val)
           /\ Len(val) = IF a.limit < Cardinality(Q) THEN a.limit
                         ELSE Cardinality(Q)
           /\ \A i \in 1..Len(val) :
                 /\ val[i].similarity = KeyOf(val[i].id, a.query).similarity
                 /\ val[i].importance = KeyOf(val[i].id, a.query).importance
           /\ \A i, j \in 1..Len(val) :
                 i < j => ~KeyGreater(val[j], val[i])
           /\ \A m \in Q \ ids : \A i \in 1..Len(val) :
                 ~KeyGreater(KeyOf(m, a.query), val[i])
           /\ Len(semantic_search(a.query, a.context_id, a.limit, Half))
                 >= Len(semantic_search(a.query, a.context_id, a.limit,
                                        NineTenths))

\* A search cut by its limit whose first entry has the higher similarity and
\* the lower importance of two qualifying memories.
C18_Witness ==
    /\ result.op = "semantic_search"
    /\ result.status = "ok"
    /\ Len(result.val) = result.arg.limit
    /\ \E m \in Qualifying(result.arg.query, result.arg.context_id,
                          result.arg.threshold) :
          /\ m # result.val[1].id
          /\ memories[m].importance > result.val[1].importance
          /\ KeyGreater(result.val[1], KeyOf(m, result.arg.query))

\* C19: every record semantic_search returns carries the plaintext content
\* of its memory, the content retrieve returns for that id, and never the
\* sealed bytes of the content column.
C19_SemanticSearchPlaintext ==
    (result.op = "semantic_search" /\ result.status = "ok")
    => \A i \in 1..Len(result.val) :
          /\ result.val[i].id \in DOMAIN stored
          /\ result.val[i].content = stored[result.val[i].id].arg.content
          /\ result.val[i].content # memories[result.val[i].id].content

\* C20: when embedding rows without a memory row exist, optimize_embeddings
\* returns, and when it has returned the embeddings table holds exactly the
\* rows it had whose memory row exists.
C20_OptimizeRemovesOrphans ==
    [][(/\ result'.op = "optimize_embeddings"
        /\ Initialized(result'.h)
        /\ DOMAIN embeddings \ DOMAIN memories # {})
       => (/\ result'.status = "ok"
           /\ embeddings' =
                Without(embeddings, DOMAIN embeddings \ DOMAIN memories)
           /\ DOMAIN embeddings' \subseteq DOMAIN memories')]_vars

\* C21: a recompute_embeddings(context_id) call in which nothing is made to
\* fail returns the number of memories matching the filter and leaves each
\* of them with exactly one embedding row, whose vector is the embedding of
\* the text that was given to store; the embedding rows of the other
\* memories and all memory rows are unchanged.
C21_RecomputeEmbedsContent ==
    [][(/\ result'.op = "recompute_embeddings"
        /\ result'.msg # "Memory system not initialized"
        /\ result'.arg.failAt = 0)
       => LET matching == {m \in DOMAIN memories :
                             InScope(m, result'.arg.context_id)}
          IN  /\ result'.status = "ok"
              /\ result'.val = Cardinality(matching)
              /\ \A m \in matching :
                    /\ m \in DOMAIN embeddings'
                    /\ frombuffer(embeddings'[m])
                         = encode(stored[m].arg.content)
              /\ DOMAIN embeddings' = DOMAIN embeddings \cup matching
              /\ \A m \in DOMAIN embeddings \ matching :
                    embeddings'[m] = embeddings[m]
              /\ memories' = memories]_vars

\* The text of the file is the encoding of 32 key bytes and a salt.
WellFormed(file) ==
    file.exists /\ file.form = "b64" /\ file.b64[1].kind \in {"rnd", "kdf"}

\* C22: a constructor call resolves the key in this order.  Key path given
\* and the file there (holding an encoded key): the call succeeds and the
\* key is the one in the file, whatever the passphrase.  Key path given and
\* no file there: the call succeeds with a fresh random key and leaves its
\* encoding in the file.  No key path: the key derived from the passphrase
\* if there is one, a random key otherwise.
C22_KeyResolutionOrder ==
    [][\A h \in Handles :
         (result'.op = "open" /\ result'.h = h /\ ~Constructed(h))
         => LET key_path == result'.arg.key_path
                passphrase == result'.arg.passphrase
                key == handles'[h].encryption_key
            IN  /\ (key_path # NoPath /\ WellFormed(keyfile))
                   => /\ Initialized(h)'
                      /\ key = keyfile.b64[1]
                      /\ keyfile' = keyfile
                /\ (key_path # NoPath /\ ~keyfile.exists)
                   => /\ Initialized(h)'
                      /\ key.kind = "rnd"
                      /\ WellFormed(keyfile')
                      /\ keyfile'.b64[1] = key
                /\ (key_path = NoPath /\ passphrase # "")
                   => /\ Initialized(h)'
                      /\ key.kind = "kdf" /\ key.p = passphrase
                      /\ keyfile' = keyfile
                /\ (key_path = NoPath /\ passphrase = "")
                   => /\ Initialized(h)'
                      /\ key.kind = "rnd"
                      /\ keyfile' = keyfile]_vars

\* C23: a constructor call with a key path whose file holds anything but
\* the encoding of 32 key bytes (text that is not base64, or base64 of fewer
\* than 32 bytes, an empty file included) fails, and no store object comes
\* to exist with a key taken from such a file.
C23_MalformedKeyFileFails ==
    [][\A h \in Handles :
         (/\ result'.op = "open" /\ result'.h = h /\ ~Constructed(h)
          /\ result'.arg.key_path # NoPath
          /\ keyfile.exists /\ ~WellFormed(keyfile))
         => /\ result'.status # "ok"
            /\ ~Constructed(h)']_vars

\* C24: for the hash h compute_hash returned and its salt s, whatever bytes
\* s is made of, string_to_hash(hash_to_string(h, s)) is (h, s), and
\* verify_hash(p, hash_to_string(h, s)) is true exactly when p is the
\* password that was hashed.
C24_HashStringRoundTrip ==
    /\ result.op = "string_to_hash"
       => /\ result.status = "ok"
          /\ result.val = <<result.arg.hash_bytes, result.arg.salt>>
    /\ result.op = "verify_hash"
       => (result.val <=> result.arg.password = result.arg.hashed)

\* C25: a recompute_embeddings call in which the embedding (or the upsert)
\* of the k-th matching memory raises ends in RuntimeError and leaves the
\* embeddings table exactly as it was before the call: none of the k-1 rows
\* already re-embedded stays replaced or added.
C25_RecomputeRollsBack ==
    [][\A h \in Handles :
         (/\ result'.op = "recompute_embeddings" /\ result'.h = h
          /\ Initialized(h)
          /\ LET matching == {m \in DOMAIN memories :
                                InScope(m, result'.arg.context_id)}
             IN  result'.arg.failAt \in 1..Cardinality(matching))
         => /\ result'.status = "RuntimeError"
            /\ embeddings' = embeddings]_vars

\* recompute_embeddings() raised at the second of two memories, after the
\* first, whose embedding row is that of the stored text or is missing, had
\* been re-embedded.
C25_Witness ==
    /\ result.op = "recompute_embeddings"
    /\ result.status = "RuntimeError"
    /\ result.msg = "Embedding recomputation failed"
    /\ result.arg.failAt = 2
    /\ result.arg.context_id = NoCtx
    /\ DOMAIN memories = {1, 2}
    /\ \/ 1 \notin DOMAIN embeddings
       \/ embeddings[1] # tobytes(encode_bytes(memories[1].content))

\* C26: with two store objects on one database, a store(content, c) whose
\* context check has passed and whose context is deleted by the other
\* object's clear_context(c) before it inserts still inserts and commits its
\* row and returns its id: the row references a context that is gone.
C26_StoreOvertakenByClear ==
    [][\A h \in Handles :
         (/\ handles[h].call.pc = "store_insert"
          /\ handles'[h].call.pc = "idle"
          /\ handles[h].call.context_id \notin contexts)
         => /\ result'.op = "store" /\ result'.h = h
            /\ result'.status = "ok"
            /\ result'.val \in DOMAIN memories' \ DOMAIN memories
            /\ memories'[result'.val].context_id
                 = handles[h].call.context_id
            /\ memories'[result'.val].context_id \notin contexts']_vars

\* A store has just returned the id of a row whose context the other
\* object's clear_context deleted after the store had verified it.
C26_Witness ==
    /\ result.op = "store" /\ result.status = "ok"
    /\ result.val \in DOMAIN memories
    /\ memories[result.val].context_id = result.arg.context_id
    /\ result.arg.context_id \notin contexts
    /\ result.arg.context_id \in 1..nextCtx
    /\ \A h \in Handles : Idle(h)

PublicOps ==
    {"create_context", "store", "retrieve", "search", "update_importance",
     "add_tags", "delete_memory", "clear_context", "get_contexts",
     "batch_store", "semantic_search", "recompute_embeddings",
     "optimize_embeddings"}

Database == <<contexts, memories, seq, embeddings>>

\* C27: close(), called once or again, and the end of a with-block, left
\* normally or through an exception, leave initialized false; on a closed
\* store every public method of SecureMemory and EmbeddingMemory fails with
\* an error and leaves the database as it was.
C27_ClosedStoreRefuses ==
    [][\A h \in Handles :
         /\ (result'.h = h /\ result'.op \in {"close", "__exit__"})
            => ~Initialized(h)' /\ handles'[h].conn = "closed"
         /\ handles[h].conn = "closed" => ~Initialized(h)'
         /\ (result'.h = h /\ result'.op \in PublicOps
             /\ handles[h].conn = "closed")
            => /\ result'.status # "ok"
               /\ Database' = Database]_vars

\* delete_memory of a memory that is there, with its embedding, has just
\* been refused by a closed EmbeddingMemory.
C27_Witness ==
    /\ result.op = "delete_memory"
    /\ handles[result.h].conn = "closed"
    /\ IsEmbedding(result.h)
    /\ result.status # "ok"
    /\ result.arg \in DOMAIN memories \cap DOMAIN embeddings

\* C28: with one store object as the only writer, through create_context,
\* store, batch_store, update_importance, add_tags, delete_memory and
\* clear_context, the context_id of every memory row is the id of a row of
\* the contexts table.
C28_ContextOfEveryMemoryExists ==
    \A m \in DOMAIN memories : memories[m].context_id \in contexts

\* clear_context has just removed a context together with its memories
\* while a memory of another context stays.
C28_Witness ==
    /\ result.op = "clear_context" /\ result.status = "ok"
    /\ result.arg.memory_ids # {}
    /\ result.arg.context_id \notin contexts
    /\ memories # << >>

\* C29: the id of every row that store or batch_store inserts is greater
\* than every id handed out before on the same database, whether its row is
\* still there or was deleted (the highest one included); store returns the
\* id of the row it inserted.
C29_IdsNeverReused ==
    [][result'.op \in {"store", "batch_store"}
       => LET new == DOMAIN memories' \ DOMAIN memories
          IN  /\ \A id \in new :
                   \A old \in returned \cup deleted \cup DOMAIN memories :
                      id > old
              /\ (result'.op = "store" /\ result'.status = "ok")
                 => new = {result'.val}
              /\ (result'.op = "batch_store" /\ result'.status = "ok")
                 => new = Range(result'.val)]_vars

\* store has just returned an id after the row with the highest id so far
\* had been deleted, and no other row is left.
C29_Witness ==
    /\ result.op = "store" /\ result.status = "ok"
    /\ result.val > 1
    /\ (result.val - 1) \in deleted
    /\ DOMAIN memories = {result.val}

\* C30: search without a tag filter, on rows that store wrote, does not
\* raise, and a memory stored without tags (or with an empty tag list) whose
\* text contains the query is among the records returned, with an empty tag
\* list.
C30_SearchUntaggedRows ==
    (/\ result.op = "search"
     /\ Initialized(result.h)
     /\ ~Truthy(result.arg.tags))
    => /\ result.status = "ok"
       /\ \A m \in DOMAIN memories :
            (/\ InScope(m, result.arg.context_id)
             /\ memories[m].tags.isNull
             /\ Contains(lower(result.arg.query),
                         lower(stored[m].arg.content)))
            => \E i \in 1..Len(result.val) :
                  /\ result.val[i].id = m
                  /\ result.val[i].tags = <<>>

====
